---------------------------- MODULE Spec2Model ----------------------------
(***************************************************************************)
(* A model of planner::TrafficLattice (conformal_lattice_planner):         *)
(*   - sortRoads            : chaining an unordered set of road ids,       *)
(*   - latticeStartAndRange : start waypoint and range of the lattice,     *)
(*   - baseConstructor      : creation of the lattice frame,               *)
(*   - registerVehicles     : marking the nodes each vehicle occupies.     *)
(*                                                                         *)
(* Lengths are whole metres.  Roads lie one after the other along the      *)
(* direction of travel; a point of the world is its travelled distance x   *)
(* from the start of road 1.  A vehicle's yaw is along the road (dir = 1)  *)
(* or against it (dir = -1), so cos(yaw) = dir and sin(yaw) = 0.           *)
(***************************************************************************)
EXTENDS Integers, Sequences, FiniteSets, TLC

VARIABLES
  pc,                     \* position of the running function
  error,                  \* the exception thrown / failure reported, "none" if none
  map,                    \* road map: [len, lane], per road id
  router,                 \* router: [next, prev], per road id, 0 = boost::none
  vehicles,               \* the input vehicle list (VehicleTuple's)
  roads,                  \* sortRoads: the input set of road ids
  seed,                   \* sortRoads: *(remaining_roads.begin())
  remaining_roads,        \* sortRoads: roads not dealt with yet
  sorted_roads,           \* sortRoads: the chain under construction
  i,                      \* sortRoads: rounds of the expansion loop executed
  start,                  \* latticeStartAndRange: output start waypoint
  range,                  \* latticeStartAndRange: output range
  nodes,                  \* the lattice nodes (waypoint, distance, front, vehicle)
  lattice_entry,          \* index of the entry node, 0 = unset
  lattice_exit,           \* index of the exit node, 0 = unset
  vehicle_to_nodes_table, \* vehicle id -> sequence of node indices
  idx                     \* registerVehicles: vehicles processed so far

vars == <<pc, error, map, router, vehicles, roads, seed, remaining_roads,
          sorted_roads, i, start, range, nodes, lattice_entry, lattice_exit,
          vehicle_to_nodes_table, idx>>

-----------------------------------------------------------------------------
(* Bounds of the model. *)

\* Road ids of the routers sortRoads is run against.
NSortRoads == 7
\* Largest input set of sortRoads.
MaxInput == 3
\* Longest input vehicle list.
MaxVehicles == 2

(* The inputs the model is run on. *)

\* The road map the lattice is built on: road 1 -> road 2, by length.
RoadLengths == <<3, 6>>
\* Where the centres of the vehicles lie on it, and the half lengths
\* (bounding_box.extent.x) of the vehicles.
Centres == 0..5
Extents == {0, 2}
\* The road registerVehicles is run on by itself, the centres and the half
\* lengths of the vehicles there, and the frames: where they start and
\* their ranges.
RegRoadLengths == <<5>>
RegCentres == 0..3
RegExtents == {0, 1}
FrameStarts == {0, 1}
FrameRanges == {2, 3}

(* Program constants. *)

\* "We will only expand 5 times."
ExpandTimes == 5
\* this->longitudinal_resolution_ = 1.0
Resolution == 1
\* "If not, just extend the range a bit (5m in this case)."
Margin == 5
\* What waypointToRoadStartDistance yields when it throws instead.
Throws == -1

NoWaypoint == [road |-> 0, lane |-> 0, s |-> 0]

-----------------------------------------------------------------------------
(* Sequences helpers *)

Front(s) == s[1]
Back(s) == s[Len(s)]
PopFront(s) == Tail(s)
PopBack(s) == SubSeq(s, 1, Len(s) - 1)
PushFront(s, e) == <<e>> \o s
PushBack(s, e) == Append(s, e)
Range(s) == {s[k] : k \in DOMAIN s}

-----------------------------------------------------------------------------
(* Router: prevRoad / nextRoad, 0 standing for boost::none. *)

prevRoad(rt, r) == rt.prev[r]
nextRoad(rt, r) == rt.next[r]

\* Routers over 1..n: the chain 1 -> 2 -> ... -> n, cut after road `cut`
\* (0: no cut) and with road `wrap` leading back to road 1 (0: no loop; a
\* road is never its own successor).
ChainNext(n, cut, wrap) ==
  [r \in 1..n |-> IF r = cut THEN 0
                  ELSE IF r = wrap THEN 1
                  ELSE IF r < n THEN r + 1 ELSE 0]

InverseOf(n, nxt) ==
  [r \in 1..n |-> IF \E q \in 1..n : nxt[q] = r
                  THEN CHOOSE q \in 1..n : nxt[q] = r
                  ELSE 0]

ChainRouter(n, cut, wrap) ==
  [next |-> ChainNext(n, cut, wrap), prev |-> InverseOf(n, ChainNext(n, cut, wrap))]

SortRouters ==
  {ChainRouter(NSortRoads, cut, wrap) : cut \in 0..NSortRoads, wrap \in (0..NSortRoads) \ {1}}

-----------------------------------------------------------------------------
(* sortRoads *)

\* remaining_roads.erase(r), guarded by !remaining_roads.empty()
EraseRoad(rem, r) == IF rem # {} THEN rem \ {r} ELSE rem

\* Mutant: the chain grows at its back only.
ExpandRound_BackOnly(rt, st) ==
  LET new_last_road == nextRoad(rt, Back(st.sorted))
  IN IF new_last_road # 0
     THEN [sorted |-> PushBack(st.sorted, new_last_road),
           remaining |-> EraseRoad(st.remaining, new_last_road)]
     ELSE st

\* One round of the expansion loop, on [sorted, remaining].
ExpandRound(rt, st) ==
  LET first_road == Front(st.sorted)
      last_road == Back(st.sorted)
      new_first_road == prevRoad(rt, first_road)
      new_last_road == nextRoad(rt, last_road)
      s1 == IF new_first_road # 0
            THEN [sorted |-> PushFront(st.sorted, new_first_road),
                  remaining |-> EraseRoad(st.remaining, new_first_road)]
            ELSE st
      s2 == IF new_last_road # 0
            THEN [sorted |-> PushBack(s1.sorted, new_last_road),
                  remaining |-> EraseRoad(s1.remaining, new_last_road)]
            ELSE s1
  IN s2

\* Mutant: the loop has no break.
LoopContinues_NoBreak(k, rem) == k < ExpandTimes

\* for (size_t i = 0; i < 5; ++i) { ...; if (remaining_roads.empty()) break; }
LoopContinues(k, rem) == k < ExpandTimes /\ rem # {}

RECURSIVE TrimFront(_, _)
TrimFront(rds, s) == IF Front(s) \notin rds THEN TrimFront(rds, PopFront(s)) ELSE s

RECURSIVE TrimBack(_, _)
TrimBack(rds, s) == IF Back(s) \notin rds THEN TrimBack(rds, PopBack(s)) ELSE s

RECURSIVE ExpandLoop(_, _, _)
ExpandLoop(rt, st, k) ==
  LET nst == ExpandRound(rt, st)
  IN IF LoopContinues(k + 1, nst.remaining) THEN ExpandLoop(rt, nst, k + 1) ELSE nst

\* The whole function, for a given first element of the unordered set.
sortRoads(rt, rds, sd) ==
  LET st == ExpandLoop(rt, [sorted |-> <<sd>>, remaining |-> rds \ {sd}], 0)
  IN IF st.remaining # {}
     THEN [ok |-> FALSE, sorted |-> <<>>]
     ELSE [ok |-> TRUE, sorted |-> TrimBack(rds, TrimFront(rds, st.sorted))]

-----------------------------------------------------------------------------
(* sortRoads, step by step *)

SortInputs == {S \in SUBSET (1..NSortRoads) : S # {} /\ Cardinality(S) <= MaxInput}

InitSort ==
  /\ pc = "sort_start"
  /\ error = "none"
  /\ map = [len |-> <<>>, lane |-> <<>>]
  /\ router \in SortRouters
  /\ vehicles = <<>>
  /\ roads \in SortInputs
  /\ seed = 0
  /\ remaining_roads = {}
  /\ sorted_roads = <<>>
  /\ i = 0
  /\ start = NoWaypoint
  /\ range = 0
  /\ nodes = <<>>
  /\ lattice_entry = 0
  /\ lattice_exit = 0
  /\ vehicle_to_nodes_table = <<>>
  /\ idx = 0

SortUnchanged == UNCHANGED <<map, router, vehicles, roads, start, range, nodes,
                             lattice_entry, lattice_exit, vehicle_to_nodes_table, idx>>

\* sorted_roads.push_back(*(remaining_roads.begin())); erase it.
SortSeed ==
  /\ pc = "sort_start"
  /\ \E sd \in roads :
       /\ seed' = sd
       /\ sorted_roads' = <<sd>>
       /\ remaining_roads' = roads \ {sd}
  /\ i' = 0
  /\ pc' = "sort_loop"
  /\ UNCHANGED error
  /\ SortUnchanged

\* One iteration of the for loop, with its break.
SortExpand ==
  /\ pc = "sort_loop"
  /\ LET nst == ExpandRound(router, [sorted |-> sorted_roads, remaining |-> remaining_roads])
     IN /\ sorted_roads' = nst.sorted
        /\ remaining_roads' = nst.remaining
        /\ i' = i + 1
        /\ pc' = IF LoopContinues(i + 1, nst.remaining) THEN "sort_loop" ELSE "sort_check"
  /\ UNCHANGED <<error, seed>>
  /\ SortUnchanged

\* if (!remaining_roads.empty()) throw ...
SortCheck ==
  /\ pc = "sort_check"
  /\ IF remaining_roads # {}
     THEN pc' = "sort_failed" /\ error' = "unsortable"
     ELSE pc' = "sort_trim_front" /\ UNCHANGED error
  /\ UNCHANGED <<seed, remaining_roads, sorted_roads, i>>
  /\ SortUnchanged

\* while (roads.count(sorted_roads.front()) == 0) sorted_roads.pop_front();
SortTrimFront ==
  /\ pc = "sort_trim_front"
  /\ IF Front(sorted_roads) \notin roads
     THEN sorted_roads' = PopFront(sorted_roads) /\ UNCHANGED pc
     ELSE pc' = "sort_trim_back" /\ UNCHANGED sorted_roads
  /\ UNCHANGED <<error, seed, remaining_roads, i>>
  /\ SortUnchanged

\* while (roads.count(sorted_roads.back()) == 0) sorted_roads.pop_back();
SortTrimBack ==
  /\ pc = "sort_trim_back"
  /\ IF Back(sorted_roads) \notin roads
     THEN sorted_roads' = PopBack(sorted_roads) /\ UNCHANGED pc
     ELSE pc' = "sort_done" /\ UNCHANGED sorted_roads
  /\ UNCHANGED <<error, seed, remaining_roads, i>>
  /\ SortUnchanged

NextSort == SortSeed \/ SortExpand \/ SortCheck \/ SortTrimFront \/ SortTrimBack

SpecSort == InitSort /\ [][NextSort]_vars

\* The function runs to its end: every step that can be taken is taken.
SpecSortFair == SpecSort /\ WF_vars(NextSort)

-----------------------------------------------------------------------------
(* The road map (carla::client::Map) and its waypoints.                    *)
(* A waypoint is [road, lane, s]: s is the distance along the road's       *)
(* reference line, which runs against the travel direction on lanes with   *)
(* a positive id.                                                          *)

RECURSIVE RoadStart(_, _)
RoadStart(m, r) == IF r = 1 THEN 0 ELSE RoadStart(m, r - 1) + m.len[r - 1]

WorldLength(m) == RoadStart(m, Len(m.len) + 1)

GetLength(m, r) == m.len[r]

Clamp(m, x) == IF x < 0 THEN 0 ELSE IF x > WorldLength(m) - 1 THEN WorldLength(m) - 1 ELSE x

RoadAt(m, x) == CHOOSE r \in 1..Len(m.len) : RoadStart(m, r) <= x /\ x < RoadStart(m, r + 1)

\* The waypoint at travelled distance d of road r.
WaypointOn(m, r, d) ==
  [road |-> r, lane |-> m.lane[r], s |-> IF m.lane[r] > 0 THEN m.len[r] - d ELSE d]

\* map_->GetWaypoint(location): the location projected onto the nearest road.
GetWaypoint(m, x) ==
  LET cx == Clamp(m, x)
      r == RoadAt(m, cx)
  IN WaypointOn(m, r, cx - RoadStart(m, r))

\* Where a waypoint lies in the world.
GlobalPos(m, w) ==
  RoadStart(m, w.road) + (IF w.lane > 0 THEN m.len[w.road] - w.s ELSE w.s)

\* Get the distance from the waypoint to the starting of the road.
waypointToRoadStartDistance(m, w) ==
  IF w.lane = 0 THEN Throws
  ELSE IF w.lane > 0 THEN GetLength(m, w.road) - w.s
  ELSE w.s

-----------------------------------------------------------------------------
(* Vehicles: [id, x, ext, dir] is (id, transform, bounding_box). *)

vehicleWaypoint(m, v) == GetWaypoint(m, v.x)

\* waypoint_location.x = cos*bounding_box.extent.x + transform.location.x
vehicleHeadWaypoint(m, v) == GetWaypoint(m, v.dir * v.ext + v.x)

\* waypoint_location.x = -cos*bounding_box.extent.x + transform.location.x
vehicleRearWaypoint(m, v) == GetWaypoint(m, (-v.dir) * v.ext + v.x)

-----------------------------------------------------------------------------
(* latticeStartAndRange *)

VehicleIds(vs) == {vs[k].id : k \in DOMAIN vs}

\* vehicle_transforms[id] / vehicle_bounding_boxes[id]: a later tuple with
\* the same id overwrites an earlier one.
VehicleById(vs, id) ==
  LET last == CHOOSE k \in DOMAIN vs :
                /\ vs[k].id = id
                /\ \A j \in DOMAIN vs : vs[j].id = id => j <= k
  IN vs[last]

\* The keys of road_to_vehicles_table.
TouchedRoads(m, vs) == {vehicleWaypoint(m, VehicleById(vs, id)).road : id \in VehicleIds(vs)}

VehiclesOnRoad(m, vs, r) ==
  {id \in VehicleIds(vs) : vehicleWaypoint(m, VehicleById(vs, id)).road = r}

CentreDistance(m, vs, id) == waypointToRoadStartDistance(m, vehicleWaypoint(m, VehicleById(vs, id)))

\* The comparator of std::sort runs only on a vector of two or more.
SortComparatorThrows(m, vs) ==
  \E r \in TouchedRoads(m, vs) :
    /\ Cardinality(VehiclesOnRoad(m, vs, r)) >= 2
    /\ \E id \in VehiclesOnRoad(m, vs, r) : CentreDistance(m, vs, id) = Throws

\* The vectors std::sort can leave for a road: the ids of its vehicles by
\* ascending distance, equal distances in any order.
SortedVectors(m, vs, r) ==
  LET ids == VehiclesOnRoad(m, vs, r)
      n == Cardinality(ids)
  IN {p \in [1..n -> ids] :
        /\ \A a, b \in 1..n : a # b => p[a] # p[b]
        /\ \A a, b \in 1..n : a < b => ~(CentreDistance(m, vs, p[b]) < CentreDistance(m, vs, p[a]))}

RoadToVehiclesTables(m, vs) ==
  {t \in [TouchedRoads(m, vs) -> UNION {SortedVectors(m, vs, r) : r \in TouchedRoads(m, vs)}] :
     \A r \in TouchedRoads(m, vs) : t[r] \in SortedVectors(m, vs, r)}

RECURSIVE SumLength(_, _)
SumLength(m, s) == IF s = <<>> THEN 0 ELSE GetLength(m, Front(s)) + SumLength(m, PopFront(s))

\* The first (minimum distance) vehicle of the chain.
FirstVehicle(tbl, sorted) == Front(tbl[Front(sorted)])

\* The last (maximum distance) vehicle of the chain.
LastVehicle(tbl, sorted) == Back(tbl[Back(sorted)])

\* What the front end adds to the range: the lead-in trimmed, or the margin.
FrontAdjust(m, first_waypoint, sorted) ==
  IF first_waypoint.road = Front(sorted)
  THEN -waypointToRoadStartDistance(m, first_waypoint)
  ELSE Margin

\* What the back end adds to the range: the run-out trimmed, or the margin.
BackAdjust(m, last_waypoint, sorted) ==
  IF last_waypoint.road = Back(sorted)
  THEN -(GetLength(m, Back(sorted)) - waypointToRoadStartDistance(m, last_waypoint))
  ELSE Margin

\* waypointToRoadStartDistance is called on w and throws.
DistanceThrows(m, w, r) == w.road = r /\ waypointToRoadStartDistance(m, w) = Throws

\* The function from the sorting of the vehicles on: tbl is the sorted
\* road_to_vehicles_table, sd the first element of the unordered road set.
latticeStartAndRange(m, rt, vs, tbl, sd) ==
  LET sr == sortRoads(rt, TouchedRoads(m, vs), sd)
      sorted == sr.sorted
      first_vehicle == FirstVehicle(tbl, sorted)
      last_vehicle == LastVehicle(tbl, sorted)
      first_waypoint == vehicleRearWaypoint(m, VehicleById(vs, first_vehicle))
      last_waypoint == vehicleHeadWaypoint(m, VehicleById(vs, last_vehicle))
  IN IF ~sr.ok
     THEN [error |-> "unsortable", start |-> NoWaypoint, range |-> 0]
     ELSE IF DistanceThrows(m, first_waypoint, Front(sorted))
             \/ DistanceThrows(m, last_waypoint, Back(sorted))
     THEN [error |-> "lane_id_0", start |-> first_waypoint, range |-> 0]
     ELSE [error |-> "none", start |-> first_waypoint,
           range |-> SumLength(m, sorted) + FrontAdjust(m, first_waypoint, sorted)
                       + BackAdjust(m, last_waypoint, sorted)]

-----------------------------------------------------------------------------
(* The lattice frame (Lattice<WaypointNodeWithVehicle, Router>) *)

\* Nodes the frame gets: one per resolution step from the start, as far as
\* the range and the road map reach.
FrameSize(m, st, rng) ==
  LET room == WorldLength(m) - 1 - GlobalPos(m, st)
      reach == IF rng < room THEN rng ELSE room
  IN (reach \div Resolution) + 1

\* boost::make_shared<Node>(start) followed by this->extend(range).
extend(m, st, rng) ==
  LET n == FrameSize(m, st, rng)
  IN [k \in 1..n |->
        [waypoint |-> GetWaypoint(m, GlobalPos(m, st) + (k - 1) * Resolution),
         distance |-> (k - 1) * Resolution,
         front |-> IF k < n THEN k + 1 ELSE 0,
         vehicle |-> 0]]

\* The road graph goes on for the whole range in front of st.
ExtendReaches(m, st, rng) == GlobalPos(m, st) + rng <= WorldLength(m) - 1

\* What this->extend(range) can come to: where the road graph ends before
\* the range is reached, it stops there or it fails.
ExtendOutcomes(m, st, rng) ==
  IF ExtendReaches(m, st, rng) THEN {"built"} ELSE {"built", "extend_failed"}

Abs(a) == IF a < 0 THEN -a ELSE a

NodeGap(m, nds, k, w) == Abs(GlobalPos(m, nds[k].waypoint) - GlobalPos(m, w))

\* closestNode(waypoint, longitudinal_resolution_/2.0): index of the nearest
\* node if it is within the tolerance, 0 (nullptr) otherwise.
closestNode(m, nds, w) ==
  LET near == {k \in DOMAIN nds :
                 /\ 2 * NodeGap(m, nds, k, w) <= Resolution
                 /\ \A j \in DOMAIN nds : NodeGap(m, nds, k, w) <= NodeGap(m, nds, j, w)}
  IN IF near = {} THEN 0 ELSE CHOOSE k \in near : \A j \in near : k <= j

\* Mutant: a range equal to the resolution is let through.
RangeTooSmall_Strict(rng) == rng < Resolution

\* range <= this->longitudinal_resolution_
RangeTooSmall(rng) == rng <= Resolution

-----------------------------------------------------------------------------
(* registerVehicles *)

\* Mutant: the head node is not added after the loop.
RECURSIVE CollectNodes_NoHead(_, _, _, _)
CollectNodes_NoHead(nds, next_node, head_node, acc) ==
  IF nds[next_node].waypoint = nds[head_node].waypoint
  THEN [ok |-> TRUE, nodes |-> acc]
  ELSE IF nds[next_node].front # 0
  THEN CollectNodes_NoHead(nds, nds[next_node].front, head_node, Append(acc, next_node))
  ELSE [ok |-> FALSE, nodes |-> acc]

\* The while loop from rear_node to head_node, then emplace_back(head_node).
RECURSIVE CollectNodes(_, _, _, _)
CollectNodes(nds, next_node, head_node, acc) ==
  IF nds[next_node].waypoint = nds[head_node].waypoint
  THEN [ok |-> TRUE, nodes |-> Append(acc, head_node)]
  ELSE IF nds[next_node].front # 0
  THEN CollectNodes(nds, nds[next_node].front, head_node, Append(acc, next_node))
  ELSE [ok |-> FALSE, nodes |-> acc]

\* Mutant: the nodes are marked only if every one of them is free.
MarkNodes_AllOrNone(nds, seq, k, id) ==
  IF \E j \in k..Len(seq) : nds[seq[j]].vehicle # 0
  THEN [ok |-> FALSE, nodes |-> nds]
  ELSE [ok |-> TRUE,
        nodes |-> [n \in DOMAIN nds |->
                     IF \E j \in k..Len(seq) : seq[j] = n
                     THEN [nds[n] EXCEPT !.vehicle = id] ELSE nds[n]]]

\* Mutant: a node is taken over without looking at its vehicle.
RECURSIVE MarkNodes_NoCheck(_, _, _, _)
MarkNodes_NoCheck(nds, seq, k, id) ==
  IF k > Len(seq) THEN [ok |-> TRUE, nodes |-> nds]
  ELSE MarkNodes_NoCheck([nds EXCEPT ![seq[k]].vehicle = id], seq, k + 1, id)

\* for (auto& node : nodes) { if (vehicle()) return false; else vehicle() = id; }
RECURSIVE MarkNodes(_, _, _, _)
MarkNodes(nds, seq, k, id) ==
  IF k > Len(seq) THEN [ok |-> TRUE, nodes |-> nds]
  ELSE IF nds[seq[k]].vehicle # 0 THEN [ok |-> FALSE, nodes |-> nds]
  ELSE MarkNodes([nds EXCEPT ![seq[k]].vehicle = id], seq, k + 1, id)

\* vehicle_to_nodes_table_[id] = nodes
TableWith(tbl, id, seq) ==
  [j \in (DOMAIN tbl) \cup {id} |-> IF j = id THEN seq ELSE tbl[j]]

\* vehicle_to_nodes_table_.clear()
ClearedTable == <<>>

\* Mutant: a failure throws the table away.
FailWith_Cleared(st, kind) == [st EXCEPT !.kind = kind, !.table = ClearedTable]

\* throw std::runtime_error(...) / return false: the loop is left as it is.
FailWith(st, kind) == [st EXCEPT !.kind = kind]

\* The body of the loop over the vehicles, on st = [kind, nodes, table, done]:
\* done counts the vehicles whose turn of the loop ran to its end.
RegisterOne(m, st, v) ==
  LET head_node == closestNode(m, st.nodes, vehicleHeadWaypoint(m, v))
      rear_node == closestNode(m, st.nodes, vehicleRearWaypoint(m, v))
      col == CollectNodes(st.nodes, rear_node, head_node, <<>>)
      mk == MarkNodes(st.nodes, col.nodes, 1, v.id)
  IN IF head_node = 0 \/ rear_node = 0
     THEN FailWith(st, "off_lattice")
     ELSE IF ~col.ok
     THEN FailWith(st, "disconnected")
     ELSE IF ~mk.ok
     THEN FailWith([st EXCEPT !.nodes = mk.nodes], "collision")
     ELSE [kind |-> "ok", nodes |-> mk.nodes,
           table |-> TableWith(st.table, v.id, col.nodes), done |-> st.done + 1]

RECURSIVE RegisterLoop(_, _, _, _)
RegisterLoop(m, st, vs, k) ==
  IF k > Len(vs) \/ st.kind # "ok" THEN st
  ELSE RegisterLoop(m, RegisterOne(m, st, vs[k]), vs, k + 1)

\* The whole function: kind is "ok" when it returns true.
registerVehicles(m, nds, vs) ==
  RegisterLoop(m, [kind |-> "ok", nodes |-> nds, table |-> ClearedTable, done |-> 0], vs, 1)

-----------------------------------------------------------------------------
(* The constructor TrafficLattice(vehicles, map, router), step by step *)

LaneVectors == [DOMAIN RoadLengths -> {-1, 0, 1}]

Maps == {[len |-> RoadLengths, lane |-> lv] : lv \in LaneVectors}

\* Poses and bounding boxes: centre x, half length ext, heading dir.  The
\* heading of a vehicle of no length moves neither its head nor its rear.
Placements(xs, exts) ==
  {p \in [x : xs, ext : exts, dir : {-1, 1}] : p.ext = 0 => p.dir = 1}

\* The ids of a list of n vehicles: the k-th has id k, but that the second
\* may repeat the id of the first.
IdVectors(n) ==
  {ids \in [1..n -> 1..n] : \A k \in 1..n : ids[k] = k \/ (k = 2 /\ ids[k] = 1)}

\* vs is a list of up to maxn vehicles with their centres in xs.
IsVehicleList(vs, xs, exts, maxn) ==
  \E n \in 1..maxn :
    \E t \in [1..n -> Placements(xs, exts)], ids \in IdVectors(n) :
      vs = [k \in 1..n |-> [id |-> ids[k], x |-> t[k].x, ext |-> t[k].ext, dir |-> t[k].dir]]

Init ==
  /\ pc = "start"
  /\ error = "none"
  /\ map \in Maps
  /\ router = ChainRouter(Len(map.len), 0, 0)
  /\ IsVehicleList(vehicles, Centres, Extents, MaxVehicles)
  /\ roads = {}
  /\ seed = 0
  /\ remaining_roads = {}
  /\ sorted_roads = <<>>
  /\ i = 0
  /\ start = NoWaypoint
  /\ range = 0
  /\ nodes = <<>>
  /\ lattice_entry = 0
  /\ lattice_exit = 0
  /\ vehicle_to_nodes_table = <<>>
  /\ idx = 0

\* latticeStartAndRange(vehicles, start_waypoint, range)
LatticeStartAndRange ==
  /\ pc = "start"
  /\ roads' = TouchedRoads(map, vehicles)
  /\ IF SortComparatorThrows(map, vehicles)
     THEN /\ error' = "lane_id_0"
          /\ pc' = "failed"
          /\ UNCHANGED <<seed, sorted_roads, start, range>>
     ELSE \E tbl \in RoadToVehiclesTables(map, vehicles), sd \in TouchedRoads(map, vehicles) :
            LET r == latticeStartAndRange(map, router, vehicles, tbl, sd)
            IN /\ seed' = sd
               /\ sorted_roads' = sortRoads(router, TouchedRoads(map, vehicles), sd).sorted
               /\ error' = r.error
               /\ start' = r.start
               /\ range' = r.range
               /\ pc' = IF r.error = "none" THEN "estimated" ELSE "failed"
  /\ UNCHANGED <<map, router, vehicles, remaining_roads, i, nodes, lattice_entry,
                 lattice_exit, vehicle_to_nodes_table, idx>>

\* baseConstructor(start_waypoint, range, 1.0, router)
BaseConstructor ==
  /\ pc = "estimated"
  /\ IF RangeTooSmall(range)
     THEN /\ error' = "range_too_small"
          /\ pc' = "failed"
          /\ UNCHANGED <<nodes, lattice_entry, lattice_exit>>
     ELSE \E outcome \in ExtendOutcomes(map, start, range) :
            IF outcome = "built"
            THEN /\ nodes' = extend(map, start, range)
                 /\ lattice_entry' = 1
                 /\ lattice_exit' = Len(extend(map, start, range))
                 /\ pc' = "built"
                 /\ UNCHANGED error
            ELSE /\ error' = outcome
                 /\ pc' = "failed"
                 /\ UNCHANGED <<nodes, lattice_entry, lattice_exit>>
  /\ UNCHANGED <<map, router, vehicles, roads, seed, remaining_roads, sorted_roads, i,
                 start, range, vehicle_to_nodes_table, idx>>

\* if (!registerVehicles(vehicles)) throw ...
RegisterVehicles ==
  /\ pc = "built"
  /\ LET r == registerVehicles(map, nodes, vehicles)
     IN /\ nodes' = r.nodes
        /\ vehicle_to_nodes_table' = r.table
        /\ error' = IF r.kind = "ok" THEN "none" ELSE r.kind
        /\ pc' = IF r.kind = "ok" THEN "registered" ELSE "failed"
        /\ idx' = r.done
  /\ UNCHANGED <<map, router, vehicles, roads, seed, remaining_roads, sorted_roads, i,
                 start, range, lattice_entry, lattice_exit>>

Next == LatticeStartAndRange \/ BaseConstructor \/ RegisterVehicles

Spec == Init /\ [][Next]_vars

-----------------------------------------------------------------------------
(* registerVehicles on its own: against any frame baseConstructor builds *)

\* The map of the frames: lane id -1 throughout.
RegMap == [len |-> RegRoadLengths, lane |-> [r \in DOMAIN RegRoadLengths |-> -1]]

InitReg ==
  /\ pc = "built"
  /\ error = "none"
  /\ map = RegMap
  /\ router = ChainRouter(Len(map.len), 0, 0)
  /\ IsVehicleList(vehicles, RegCentres, RegExtents, MaxVehicles)
  /\ roads = {}
  /\ seed = 0
  /\ remaining_roads = {}
  /\ sorted_roads = <<>>
  /\ i = 0
  /\ \E x \in FrameStarts, rng \in FrameRanges :
       /\ start = GetWaypoint(map, x)
       /\ range = rng
  /\ nodes = extend(map, start, range)
  /\ lattice_entry = 1
  /\ lattice_exit = Len(nodes)
  /\ vehicle_to_nodes_table = <<>>
  /\ idx = 0

NextReg == RegisterVehicles

SpecReg == InitReg /\ [][NextReg]_vars

-----------------------------------------------------------------------------
(* Properties *)

TableIds == DOMAIN vehicle_to_nodes_table

\* registerVehicles has returned true.
Registered == pc = "registered"

\* registerVehicles has failed: it returned false or threw.
RegisterFailed == pc = "failed" /\ error \in {"collision", "off_lattice", "disconnected"}

\* The last tuple of the list with the given id: the one that wrote the
\* table entry of that id.
LastWithId(vs, id) == VehicleById(vs, id)

\* seq runs from the node nearest v's rear reference point, front link by
\* front link, to the node nearest v's head reference point.
IsRearToHeadRun(seq, v) ==
  /\ Len(seq) >= 1
  /\ seq[1] = closestNode(map, nodes, vehicleRearWaypoint(map, v))
  /\ \A k \in 1..(Len(seq) - 1) : nodes[seq[k]].front = seq[k + 1] /\ seq[k + 1] # 0
  /\ seq[Len(seq)] = closestNode(map, nodes, vehicleHeadWaypoint(map, v))

\* C1: whenever registerVehicles returns true, no node belongs to the node
\* sequences of two distinct vehicle ids of the table, and every node of a
\* sequence carries the id of that one vehicle and no other.
C1_NoDoubleOccupancy ==
  Registered =>
    /\ \A a, b \in TableIds :
         a # b => Range(vehicle_to_nodes_table[a]) \cap Range(vehicle_to_nodes_table[b]) = {}
    /\ \A a \in TableIds : \A k \in Range(vehicle_to_nodes_table[a]) : nodes[k].vehicle = a
    /\ \A k \in DOMAIN nodes :
         Cardinality({a \in TableIds : k \in Range(vehicle_to_nodes_table[a])}) <= 1

\* Two vehicles, one behind the other, are registered, each on two nodes or more.
C1_Witness ==
  /\ Registered
  /\ Cardinality(TableIds) >= 2
  /\ \A a \in TableIds : Len(vehicle_to_nodes_table[a]) >= 2

\* C5: after a successful registerVehicles the node sequence of every vehicle
\* of the table is not empty, begins at the node nearest its rear reference
\* point, follows the front links and ends at the node nearest its head
\* reference point.
C5_Contiguity ==
  Registered =>
    \A a \in TableIds : IsRearToHeadRun(vehicle_to_nodes_table[a], LastWithId(vehicles, a))

\* A vehicle on one node (rear and head nodes coincide) next to one on several.
C5_Witness ==
  /\ Registered
  /\ \E a \in TableIds : Len(vehicle_to_nodes_table[a]) = 1
  /\ \E a \in TableIds : Len(vehicle_to_nodes_table[a]) >= 3

\* baseConstructor has been called and has thrown or returned.
BaseConstructorOver ==
  pc \in {"built", "registered"} \/ RegisterFailed \/ error \in {"range_too_small", "extend_failed"}

ResolvedWaypoints ==
  UNION {{vehicleWaypoint(map, vehicles[k]), vehicleHeadWaypoint(map, vehicles[k]),
          vehicleRearWaypoint(map, vehicles[k])} : k \in DOMAIN vehicles}

\* A vehicle set in the plain sense: every id once, no two centres at the
\* same place, every vehicle heading along its road.
PlainVehicleSet ==
  /\ \A j, k \in DOMAIN vehicles :
       j # k => (vehicles[j].id # vehicles[k].id /\ vehicles[j].x # vehicles[k].x)
  /\ \A k \in DOMAIN vehicles : vehicles[k].dir = 1

\* The vehicle at which registerVehicles failed.
FailingVehicle == vehicles[idx + 1]

\* The vehicles whose turn of the loop ran to its end before the failure.
ProcessedBefore == SubSeq(vehicles, 1, idx)

\* C2 as stated: if registerVehicles fails for any vehicle, the
\* vehicle-to-nodes table has no entry at all, be the vehicles a plain set.
C2_Atomicity == (RegisterFailed /\ PlainVehicleSet) => TableIds = {}

\* C2 as amended: if registerVehicles fails at a vehicle, the table holds the
\* entries of exactly the vehicles processed before it in that pass, each with
\* its whole rear-to-head node sequence; the failing vehicle and the vehicles
\* after it add nothing.
C2_TableOnFailure ==
  RegisterFailed =>
    /\ idx < Len(vehicles)
    /\ TableIds = VehicleIds(ProcessedBefore)
    /\ \A a \in TableIds :
         IsRearToHeadRun(vehicle_to_nodes_table[a], LastWithId(ProcessedBefore, a))

\* A collision at the second vehicle: the first one has its entry.
C2_Witness == RegisterFailed /\ error = "collision" /\ idx = 1 /\ Cardinality(TableIds) = 1

\* The index of the first node of v's rear-to-head run, and of its last.
RearNode(v) == closestNode(map, nodes, vehicleRearWaypoint(map, v))
HeadNode(v) == closestNode(map, nodes, vehicleHeadWaypoint(map, v))

\* Node k lies on the rear-to-head run of v.
OnRun(v, k) == RearNode(v) <= k /\ k <= HeadNode(v)

\* The id node k got from the vehicles processed before the failure, 0 if none.
EarlierMark(k) ==
  IF \E j \in 1..idx : OnRun(vehicles[j], k)
  THEN vehicles[CHOOSE j \in 1..idx : OnRun(vehicles[j], k)].id
  ELSE 0

\* The first node of the failing vehicle's run that was occupied already.
FirstOccupied ==
  IF \E k \in DOMAIN nodes : OnRun(FailingVehicle, k) /\ EarlierMark(k) # 0
  THEN CHOOSE k \in DOMAIN nodes :
         /\ OnRun(FailingVehicle, k) /\ EarlierMark(k) # 0
         /\ \A j \in DOMAIN nodes : (OnRun(FailingVehicle, j) /\ EarlierMark(j) # 0) => k <= j
  ELSE 0

CollisionDetected == pc = "failed" /\ error = "collision"

\* C10 as stated: when a collision is detected for a vehicle, no node carries
\* the id of that vehicle and none of the nodes marked during the failed pass
\* is still marked, be the vehicles a plain set.
C10_CommitAfterCollect ==
  (CollisionDetected /\ PlainVehicleSet) =>
    /\ \A k \in DOMAIN nodes : OnRun(FailingVehicle, k) => nodes[k].vehicle # FailingVehicle.id
    /\ \A k \in DOMAIN nodes : nodes[k].vehicle = 0

\* C10 as amended: a vehicle's rear-to-head sequence is collected in full
\* before any of its nodes is marked, but the nodes are then marked one by one
\* from the rear, up to the first one that is occupied already.  When a
\* collision is detected, the nodes of the failing vehicle's sequence before
\* the occupied one carry its id, and the nodes of the vehicles registered
\* before it in the pass keep theirs; no other node is marked.
C10_MarksOnCollision ==
  CollisionDetected =>
    LET occupied == FirstOccupied
        rear == RearNode(FailingVehicle)
    IN  /\ occupied # 0
        /\ \A k \in DOMAIN nodes :
             nodes[k].vehicle =
               IF EarlierMark(k) # 0 THEN EarlierMark(k)
               ELSE IF rear <= k /\ k < occupied THEN FailingVehicle.id
               ELSE 0

\* A collision found after the failing vehicle has marked a node of its own.
C10_Witness ==
  /\ CollisionDetected
  /\ FailingVehicle.id \notin VehicleIds(ProcessedBefore)
  /\ \E k \in DOMAIN nodes : nodes[k].vehicle = FailingVehicle.id

\* C4 as stated: whenever latticeStartAndRange produces (start, range) for a
\* vehicle set, the start is at or before the rear reference point of every
\* vehicle and start + range is at or beyond the head reference point of
\* every vehicle, whatever the half lengths of the vehicles.
C4_SpanCoverage ==
  (pc = "estimated" /\ PlainVehicleSet) =>
    \A k \in DOMAIN vehicles :
      /\ GlobalPos(map, start) <= GlobalPos(map, vehicleRearWaypoint(map, vehicles[k]))
      /\ GlobalPos(map, start) + range >= GlobalPos(map, vehicleHeadWaypoint(map, vehicles[k]))

\* C7 as stated: if a position resolved during the construction (a centre,
\* a head or a rear reference point) has lane id 0, the construction fails
\* with the lane-id-0 error instead of producing a lattice: no frame is built
\* and no vehicle is registered on one, also where the road graph has room
\* for the whole frame.
C7_LaneZeroRejected ==
  (/\ PlainVehicleSet
   /\ \E w \in ResolvedWaypoints : w.lane = 0
   /\ pc \in {"built", "registered", "failed"}
   /\ start = NoWaypoint \/ ExtendReaches(map, start, range)) =>
    /\ pc = "failed"
    /\ error = "lane_id_0"
    /\ nodes = <<>>

\* The frame as baseConstructor left it, before any vehicle was registered.
FreshFrame == extend(map, start, range)

\* The orders the vehicle list can be given in.
Orders(n) == {p \in [1..n -> 1..n] : \A j, k \in 1..n : j # k => p[j] # p[k]}

Permuted(vs, p) == [k \in DOMAIN vs |-> vs[p[k]]]

\* What registerVehicles does with the list in the order p.
RegisteredInOrder(p) == registerVehicles(map, FreshFrame, Permuted(vehicles, p))

\* The kind of outcome of the pass that was run.
OutcomeKind == IF Registered THEN "ok" ELSE error

RegisterOver == Registered \/ RegisterFailed

\* The ids that occur once in the list.
IdsOccurringOnce ==
  {a \in VehicleIds(vehicles) : Cardinality({k \in DOMAIN vehicles : vehicles[k].id = a}) = 1}

\* C8 as stated: every permutation of a list of distinct vehicles yields, against the
\* same fresh frame, the same kind of outcome (success, collision,
\* off-lattice error, disconnected-nodes error) and on success the same
\* table and the same node marks.
C8_OrderIndependence ==
  (RegisterOver /\ IdsOccurringOnce = VehicleIds(vehicles)) =>
    \A p \in Orders(Len(vehicles)) :
      /\ RegisteredInOrder(p).kind = OutcomeKind
      /\ Registered => /\ RegisteredInOrder(p).table = vehicle_to_nodes_table
                       /\ RegisteredInOrder(p).nodes = nodes

\* C8 as amended: every permutation of the vehicle list succeeds or fails,
\* against the same fresh frame, as the list itself does; on success it leaves
\* the same node marks and a table of the same ids, with the same node
\* sequence for every id that occurs once in the list.  Which failure is
\* reported, like the node blamed, depends on the order.
C8_SuccessOrderIndependent ==
  RegisterOver =>
    \A p \in Orders(Len(vehicles)) :
      /\ (RegisteredInOrder(p).kind = "ok") <=> Registered
      /\ Registered =>
           /\ RegisteredInOrder(p).nodes = nodes
           /\ DOMAIN RegisteredInOrder(p).table = TableIds
           /\ \A a \in IdsOccurringOnce :
                RegisteredInOrder(p).table[a] = vehicle_to_nodes_table[a]

\* Several vehicles registered, each under its own id, one of them on more
\* than one node.
C8_Witness ==
  /\ Registered
  /\ Len(vehicles) >= 2
  /\ Cardinality(TableIds) = Len(vehicles)
  /\ \E a \in TableIds : Len(vehicle_to_nodes_table[a]) >= 2

\* The road k router hops after r (behind it for k < 0), 0 if there is none.
RECURSIVE Hop(_, _, _)
Hop(rt, r, k) ==
  IF r = 0 \/ k = 0 THEN r
  ELSE IF k > 0 THEN Hop(rt, nextRoad(rt, r), k - 1)
  ELSE Hop(rt, prevRoad(rt, r), k + 1)

\* The roads within n router hops of r, forward or backward.
WithinHops(rt, r, n) == {Hop(rt, r, k) : k \in (-n)..n} \ {0}

\* The roads of S joined to r by router links between roads of S.
RECURSIVE LinkedWithin(_, _, _, _)
LinkedWithin(rt, S, reached, n) ==
  IF n = 0 THEN reached
  ELSE LinkedWithin(rt, S,
         reached \cup {q \in S : \E r \in reached : nextRoad(rt, r) = q \/ prevRoad(rt, r) = q},
         n - 1)

\* S is connected through the prevRoad/nextRoad links.
ConnectedRoads(rt, S) ==
  \A r \in S : LinkedWithin(rt, S, {r}, Cardinality(S)) = S

\* sortRoads has returned its chain.
SortReturned == pc = "sort_done"

SortOver == pc \in {"sort_done", "sort_failed"}

\* C3 as stated: for a non-empty input set that is connected through the
\* router's links and lies within 5 router hops of the seed, sortRoads
\* returns a chain in which every input road appears exactly once, every
\* element is followed by its router successor, and both ends are input roads.
C3_ChainCompleteness ==
  (SortOver /\ ConnectedRoads(router, roads) /\ roads \subseteq WithinHops(router, seed, ExpandTimes)) =>
    /\ SortReturned
    /\ \A r \in roads : Cardinality({k \in DOMAIN sorted_roads : sorted_roads[k] = r}) = 1
    /\ \A k \in 1..(Len(sorted_roads) - 1) : nextRoad(router, sorted_roads[k]) = sorted_roads[k + 1]
    /\ Front(sorted_roads) \in roads
    /\ Back(sorted_roads) \in roads

\* What holds of the expansion loop and of what follows it.
C9_Rounds ==
  /\ i <= ExpandTimes
  /\ pc = "sort_loop" => (i < ExpandTimes /\ (i > 0 => remaining_roads # {}))
  /\ pc = "sort_check" => (i >= 1 /\ (remaining_roads # {} => i = ExpandTimes))
  /\ pc = "sort_failed" => (i = ExpandTimes /\ remaining_roads # {} /\ error = "unsortable")
  /\ pc \in {"sort_trim_front", "sort_trim_back", "sort_done"} =>
       (remaining_roads = {} /\ error = "none" /\ sorted_roads # <<>>)

\* C9: sortRoads runs at most 5 rounds of expansion, runs no round after one
\* that ends with the remaining set empty, fails with the unsortable-roads
\* error exactly when the remaining set is not empty after the 5th round,
\* and always comes to an end, the trimming of both ends included.
C9_UnsortableRoads == [](C9_Rounds) /\ <>(SortOver)

\* The failure after the 5th round.
C9_Witness == pc = "sort_failed" /\ i = ExpandTimes /\ remaining_roads # {}

\* What sortRoads comes to when the unordered set hands out sd first.
SortedFrom(sd) == sortRoads(router, roads, sd)

\* The run has come to what sortRoads comes to from the seed sd: the same
\* chain, or the unsortable-roads failure.
SameResultFrom(sd) ==
  /\ SortedFrom(sd).ok = SortReturned
  /\ SortReturned => SortedFrom(sd).sorted = sorted_roads

\* What the header asks of the input: from any road of it, every road of it
\* is found within five steps forward or backward.
RoadsWithinReach == \A r \in roads : roads \subseteq WithinHops(router, r, ExpandTimes)

\* The router leads from no input road back to it.
NoRingThroughRoads ==
  \A r \in roads : \A k \in 1..Len(router.next) : Hop(router, r, k) # r

\* C11 as stated: for a fixed router and a fixed input set, sortRoads comes to
\* the same result (the chain, or the unsortable-roads failure) whichever road
\* of the set is the seed, also where the router closes no ring.
C11_SeedIndependence == (SortOver /\ NoRingThroughRoads) => \A sd \in roads : SameResultFrom(sd)

\* C11 as amended: for a fixed router and a fixed input set of which every
\* road is within five router hops of every other, sortRoads returns a chain
\* whichever road of the set is the seed, never the unsortable-roads failure;
\* the chain is the same for every seed where the router leads from no input
\* road back to it, and may differ with the seed on such a ring.
C11_SeedIndependentWithinReach ==
  (SortOver /\ RoadsWithinReach) =>
    /\ SortReturned
    /\ \A sd \in roads :
         /\ SortedFrom(sd).ok
         /\ NoRingThroughRoads => SortedFrom(sd).sorted = sorted_roads

\* A chain of three input roads with a filled gap, grown from a seed that is
\* neither its first road nor its last.
C11_Witness ==
  /\ SortReturned
  /\ RoadsWithinReach
  /\ NoRingThroughRoads
  /\ Cardinality(roads) = 3
  /\ seed # Front(sorted_roads)
  /\ seed # Back(sorted_roads)
  /\ Len(sorted_roads) > 3

=============================================================================
